---- MODULE Spec2Model ----
\* A model of joplin-attachment-cleaner (src/src/main.go).  The file holds the
\* two variants of the program: the Recorder variant (lines 1-213), which
\* deletes every orphaned resource and prints a summary, and the confirmation
\* variant (lines 215-427), which lists the orphaned resources and deletes
\* them after a "yes" on standard input.
EXTENDS Integers, Sequences, FiniteSets, TLC

\* ---------------------------------------------------------------- bounds
MaxIds == 2        \* resource identifiers the adversarial server may name
MaxItems == 1      \* longest item list of one adversarial response
MaxPage == 2       \* last listing page the model lets the program request
MaxN == 201        \* most resources held by the well-behaved paging server

\* ------------------------------------------------------ program constants
Limit == 100           \* limit=100 of the listing URL
MaxPortNo == 65535     \* upper end of the valid port range

\* ------------------------------------------------------------ environment
IDs == 1..MaxIds
SizeOf(id) == 2 * id + 1
Ports == {0 - 1, 0, MaxPortNo, MaxPortNo + 1}
Tokens == {"", "tok"}
Variants == {"recorder", "confirm"}
EmptyMap == [i \in {} |-> 0]

\* Item of the JSON envelope.  The confirmation variant asks for fields=id
\* only and its Item has no Size; the size is then 0.
Item(id, sized) == [ID |-> id, Size |-> IF sized THEN SizeOf(id) ELSE 0]

\* joplinResponse and its zero value (var resp joplinResponse).
joplinResponse(e, items, more) == [Error |-> e, Items |-> items, More |-> more]
ZeroResponse == joplinResponse("", <<>>, FALSE)

RECURSIVE SeqsUpTo(_, _)
SeqsUpTo(S, n) ==
    IF n = 0 THEN {<<>>}
    ELSE LET shorter == SeqsUpTo(S, n - 1)
         IN  shorter \cup {Append(s, x) : s \in shorter, x \in S}

\* What the wire can yield for one request: client.Do fails ("neterr"), or
\* it succeeds with a body that is empty, is not JSON ("garbage"), or is a
\* JSON envelope.
WireBody(kind, env) == [kind |-> kind, env |-> env]
FailedWire == {WireBody(k, ZeroResponse) : k \in {"neterr", "empty", "garbage"}}
ErrorWire == {WireBody("json", joplinResponse("Invalid token", <<>>, FALSE))}

\* Answers of an arbitrary server to a listing request.
ListingWire(sized) ==
    FailedWire \cup ErrorWire \cup
    {WireBody("json", joplinResponse("", items, more)) :
        items \in SeqsUpTo({Item(i, sized) : i \in IDs}, MaxItems),
        more \in BOOLEAN}

\* Answers to a notes query: the items are the referencing notes.
NotesWire ==
    FailedWire \cup ErrorWire \cup
    {WireBody("json", joplinResponse("", items, FALSE)) :
        items \in {<<>>, <<Item(1, FALSE)>>}}

\* Answers to a DELETE: empty body on success, error envelope on failure.
DeleteWire ==
    FailedWire \cup ErrorWire \cup {WireBody("json", ZeroResponse)}

\* The well-behaved paging server of n resources 1..n: page p holds the
\* identifiers (p-1)*Limit+1 .. p*Limit in ascending order, and has_more is
\* set exactly when further items remain.
PageLen(n, p) ==
    IF n <= (p - 1) * Limit THEN 0
    ELSE IF n >= p * Limit THEN Limit ELSE n - (p - 1) * Limit
PagedWire(n, p, sized) ==
    WireBody("json",
        joplinResponse("",
            [k \in 1..PageLen(n, p) |-> Item((p - 1) * Limit + k, sized)],
            n > p * Limit))

\* ------------------------------------------------------------------ state
VARIABLES
    variant,        \* which main runs
    port, token,    \* flags -p and -t
    pc,             \* position of main
    err,            \* main's err: "" is nil
    page, mark,     \* getAllResources: loop variables
    resources,      \* r.resources / resources: id -> size
    todo,           \* identifiers the running range loop has yet to visit
    count, totalSize, failToDelete,   \* Recorder's summary fields
    stdin,          \* what standard input holds
    stdout,         \* lines printed to standard output
    rpc,            \* position inside readRespBody
    req,            \* the request of the running readRespBody
    body,           \* the response body client.Do returned
    v,              \* the envelope readRespBody decodes into
    rerr,           \* readRespBody's return value: "" is nil
    outstanding,    \* requests sent and not yet answered
    openBodies,     \* response bodies obtained and not yet closed
    servern,        \* resources held by the paging server
    remote,         \* the stable server's answer to each notes query
    runs,           \* history: how often filterResources was entered
    pages,          \* history: listing pages requested, in order
    listOut,        \* history: outcome of each listing request
    listed,         \* history: identifiers returned by listing pages
    notesReq,       \* history: notes queries issued, per identifier
    notesOut,       \* history: outcome of the notes query, per identifier
    delReq,         \* history: DELETE requests issued, per identifier
    delOut,         \* history: outcome of the DELETE, per identifier
    filterEntry,    \* history: the set when filterResources was entered
    deleteEntry,    \* history: the set when the Deletion Executor was entered
    ret             \* history: how far each stage got

vars == <<variant, port, token, pc, err, page, mark, resources, todo, count,
          totalSize, failToDelete, stdin, stdout, rpc, req, body, v, rerr,
          outstanding, openBodies, servern, remote, runs, pages, listOut, listed, notesReq,
          notesOut, delReq, delOut, filterEntry, deleteEntry, ret>>

progVars == <<variant, port, token, pc, err, page, mark, resources, todo,
              count, totalSize, failToDelete, stdin, stdout>>
histVars == <<pages, listOut, listed, notesReq, notesOut, delReq, delOut,
              filterEntry, deleteEntry, ret>>
callVars == <<rpc, req, body, v, rerr, outstanding, openBodies>>

Sized == variant = "recorder"
Stages == {"getAllResources", "filterResources", "deleteResources"}
NoRequest == [method |-> "", kind |-> "", arg |-> 0]
NoBody == WireBody("none", ZeroResponse)
NoOut == [kind |-> "none", err |-> "", Error |-> "", n |-> 0, More |-> FALSE]

InitCommon ==
    /\ variant \in Variants
    /\ port \in Ports
    /\ token \in Tokens
    /\ pc = "start"
    /\ err = ""
    /\ page = 0
    /\ mark = FALSE
    /\ resources = EmptyMap
    /\ todo = {}
    /\ count = 0
    /\ totalSize = 0
    /\ failToDelete = <<>>
    /\ stdin = <<>>
    /\ stdout = <<>>
    /\ rpc = "idle"
    /\ req = NoRequest
    /\ body = NoBody
    /\ v = ZeroResponse
    /\ rerr = ""
    /\ outstanding = 0
    /\ openBodies = 0
    /\ pages = <<>>
    /\ listOut = <<>>
    /\ listed = {}
    /\ notesReq = [i \in IDs |-> 0]
    /\ notesOut = [i \in IDs |-> NoOut]
    /\ delReq = [i \in IDs |-> 0]
    /\ delOut = [i \in IDs |-> NoOut]
    /\ filterEntry = EmptyMap
    /\ deleteEntry = EmptyMap
    /\ ret = [s \in Stages |-> "none"]
    /\ runs = 0

Init == InitCommon /\ servern = 0 /\ remote = [i \in IDs |-> NoBody]

\* ----------------------------------------------------------- readRespBody
\* http.NewRequest and the start of client.Do: the request goes out and v is
\* the caller's fresh zero envelope.
Call(method, kind, arg) ==
    /\ rpc' = "sent"
    /\ req' = [method |-> method, kind |-> kind, arg |-> arg]
    /\ body' = NoBody
    /\ v' = ZeroResponse
    /\ rerr' = ""
    /\ outstanding' = outstanding + 1
    /\ UNCHANGED openBodies

\* The caller has read readRespBody's result.
Returned ==
    /\ rpc' = "idle"
    /\ UNCHANGED <<req, body, v, rerr, outstanding, openBodies>>

\* History of a finished request, written when readRespBody returns with
\* envelope env and error e after the wire gave w.
Record(w, env, e) ==
    LET out == [kind |-> w.kind, err |-> e, Error |-> env.Error,
                n |-> Len(env.Items), More |-> env.More]
    IN  /\ listOut' = IF req.kind = "resources" THEN Append(listOut, out) ELSE listOut
        /\ listed' = IF req.kind = "resources"
                     THEN listed \cup {env.Items[k].ID : k \in 1..Len(env.Items)}
                     ELSE listed
        /\ notesOut' = IF req.kind = "notes"
                       THEN [notesOut EXCEPT ![req.arg] = out] ELSE notesOut
        /\ delOut' = IF req.kind = "delete"
                     THEN [delOut EXCEPT ![req.arg] = out] ELSE delOut
        /\ UNCHANGED <<pages, notesReq, delReq, filterEntry, deleteEntry, ret>>

\* client.Do returns: a transport failure is returned at once, otherwise the
\* body is held open (defer resp.Body.Close()).
Do(w) ==
    /\ rpc = "sent"
    /\ outstanding' = outstanding - 1
    /\ body' = w
    /\ IF w.kind = "neterr"
       THEN /\ rpc' = "ret"
            /\ rerr' = "transport error"
            /\ Record(w, v, "transport error")
            /\ UNCHANGED <<openBodies, v>>
       ELSE /\ rpc' = "body"
            /\ openBodies' = openBodies + 1
            /\ UNCHANGED <<rerr, v, histVars>>
    /\ UNCHANGED <<req, progVars, servern, remote, runs>>

\* json.NewDecoder(resp.Body).Decode(v): an empty body gives io.EOF and
\* leaves v alone, a body that is not JSON gives a syntax error.
DecodeUnmarshal(w, target) ==
    IF w.kind = "empty" THEN [err |-> "unexpected end of JSON input", v |-> target]
    ELSE IF w.kind = "garbage" THEN [err |-> "invalid character", v |-> target]
    ELSE [err |-> "", v |-> w.env]
Decode(w, target) ==
    IF w.kind = "empty" THEN [err |-> "EOF", v |-> target]
    ELSE IF w.kind = "garbage" THEN [err |-> "invalid character", v |-> target]
    ELSE [err |-> "", v |-> w.env]

\* if err != nil && !errors.Is(err, io.EOF) { return err }; return nil
DecodeResultStrict(d) == d.err
DecodeResult(d) == IF d.err # "" /\ d.err # "EOF" THEN d.err ELSE ""

\* defer resp.Body.Close(): the open bodies once readRespBody has returned
\* with decode error e.
BodiesAfterReturnLeakOnError(open, e) ==
    IF e # "" /\ e # "EOF" THEN open ELSE open - 1
BodiesAfterReturn(open, e) == open - 1

\* The decode, the return and the deferred Close of the body.
DecodeClose ==
    /\ rpc = "body"
    /\ LET d == Decode(body, v)
       IN  /\ v' = d.v
           /\ rerr' = DecodeResult(d)
           /\ Record(body, d.v, DecodeResult(d))
    /\ openBodies' = BodiesAfterReturn(openBodies, Decode(body, v).err)
    /\ rpc' = "ret"
    /\ UNCHANGED <<req, body, outstanding, progVars, servern, remote, runs>>

\* The server answers the outstanding request with any answer of its kind.
readRespBody_Do ==
    \E w \in (IF req.kind = "resources" THEN ListingWire(Sized)
              ELSE IF req.kind = "notes" THEN NotesWire ELSE DeleteWire) :
        Do(w)

\* ------------------------------------------------------------------- main
\* The flag checks of main: the message logged before the return, "" when
\* the flags pass.
ConfigErrorNoLower(tok, p) ==
    IF tok = "" THEN "token is empty"
    ELSE IF p > MaxPortNo THEN "port is invalid" ELSE ""
ConfigError(tok, p) ==
    IF tok = "" THEN "token is empty"
    ELSE IF p > MaxPortNo \/ p < 0 THEN "port is invalid" ELSE ""

\* Flag checks and the construction of the Recorder / Req.
MainStart ==
    /\ pc = "start"
    /\ IF ConfigError(token, port) # ""
       THEN /\ pc' = "done"
            /\ UNCHANGED <<page, mark, ret>>
       ELSE /\ pc' = "list"
            /\ page' = 1
            /\ mark' = TRUE
            /\ ret' = [ret EXCEPT !["getAllResources"] = "running"]
    /\ UNCHANGED <<variant, port, token, err, resources, todo, count,
                   totalSize, failToDelete, stdin, stdout, callVars, servern, remote, runs,
                   pages, listOut, listed, notesReq, notesOut, delReq, delOut,
                   filterEntry, deleteEntry>>

\* ------------------------------------------------------- getAllResources
\* The loop body up to the call: GET /resources?...&limit=100&page=N.
ListRequestUpTo(cap) ==
    /\ pc = "list"
    /\ rpc = "idle"
    /\ mark
    /\ page <= cap
    /\ Call("GET", "resources", page)
    /\ pages' = Append(pages, page)
    /\ UNCHANGED <<progVars, servern, remote, runs, listOut, listed, notesReq, notesOut,
                   delReq, delOut, filterEntry, deleteEntry, ret>>

ListRequest == ListRequestUpTo(MaxPage)

\* for _, item := range resources.Items { r.resources[item.ID] = item.Size }
\* The map after the loop: every item's identifier is a key, and a key holds
\* the size of the last item that names it.
LastOf(items, id) ==
    CHOOSE k \in 1..Len(items) :
        items[k].ID = id /\ \A j \in (k + 1)..Len(items) : items[j].ID # id
Accumulate(m, items) ==
    [i \in DOMAIN m \cup {items[k].ID : k \in 1..Len(items)} |->
        IF \E k \in 1..Len(items) : items[k].ID = i
        THEN items[LastOf(items, i)].Size
        ELSE m[i]]

\* The error a listing or filter iteration returns after its call: the
\* error of readRespBody, else errors.New(resp.Error); "" is none.
StageErrorTransportOnly(e, resp) == e
StageError(e, resp) == IF e # "" THEN e ELSE resp.Error

\* mark = resources.More
NextMarkStop(resp) == FALSE
NextMark(resp) == resp.More

\* page++
NextPageSkip(p) == p + 2
NextPage(p) == p + 1

\* The loop body after the call; on an error main returns as well.  The
\* confirmation variant returns a nil map with the error.
ListHandle ==
    /\ pc = "list"
    /\ rpc = "ret"
    /\ Returned
    /\ IF StageError(rerr, v) # ""
       THEN /\ err' = StageError(rerr, v)
            /\ resources' = IF variant = "confirm" THEN EmptyMap ELSE resources
            /\ ret' = [ret EXCEPT !["getAllResources"] = "error"]
            /\ pc' = "done"
            /\ UNCHANGED <<page, mark>>
       ELSE /\ resources' = Accumulate(resources, v.Items)
            /\ mark' = NextMark(v)
            /\ page' = NextPage(page)
            /\ err' = ""
            /\ IF NextMark(v)
               THEN /\ pc' = "list"
                    /\ UNCHANGED ret
               ELSE /\ pc' = "filter"
                    /\ ret' = [ret EXCEPT !["getAllResources"] = "ok"]
    /\ UNCHANGED <<variant, port, token, todo, count, totalSize, failToDelete,
                   stdin, stdout, servern, remote, runs, pages, listOut, listed, notesReq,
                   notesOut, delReq, delOut, filterEntry, deleteEntry>>

\* -------------------------------------------------------- filterResources
\* range r.resources: the loop visits every identifier of the map once, in
\* an order the map chooses.
FilterStart ==
    /\ pc = "filter"
    /\ pc' = "filterLoop"
    /\ todo' = DOMAIN resources
    /\ filterEntry' = resources
    /\ runs' = runs + 1
    /\ ret' = [ret EXCEPT !["filterResources"] = "running"]
    /\ UNCHANGED <<variant, port, token, err, page, mark, resources, count,
                   totalSize, failToDelete, stdin, stdout, callVars, servern, remote,
                   pages, listOut, listed, notesReq, notesOut, delReq, delOut,
                   deleteEntry>>

\* What the range loop has yet to visit once it has handed out id.
VisitSkipNext(t, id) == t \ {id, id + 1}
VisitKeep(t, id) == t
Visit(t, id) == t \ {id}

\* Where main goes when filterResources returns nil.
AfterFilter == IF variant = "recorder" THEN "delete" ELSE "decide"

\* The next iteration up to the call, GET /resources/:id/notes, or the
\* return nil after the last one.
FilterNext ==
    /\ pc = "filterLoop"
    /\ rpc = "idle"
    /\ IF todo = {}
       THEN /\ pc' = AfterFilter
            /\ err' = ""
            /\ ret' = [ret EXCEPT !["filterResources"] = "ok"]
            /\ UNCHANGED <<todo, notesReq, callVars>>
       ELSE \E id \in todo :
            /\ Call("GET", "notes", id)
            /\ todo' = Visit(todo, id)
            /\ notesReq' = [notesReq EXCEPT ![id] = @ + 1]
            /\ UNCHANGED <<pc, err, ret>>
    /\ UNCHANGED <<variant, port, token, page, mark, resources, count,
                   totalSize, failToDelete, stdin, stdout, servern, remote, runs, pages,
                   listOut, listed, notesOut, delReq, delOut, filterEntry,
                   deleteEntry>>

\* delete(r.resources, id)
MapDeleteAll(m, id) == EmptyMap
MapDelete(m, id) == [i \in DOMAIN m \ {id} |-> m[i]]

\* What one iteration does to the map once the notes query has come back
\* without error.
FilterStepKeep(m, id, notes) == m
FilterStepInverted(m, id, notes) == IF Len(notes.Items) > 0 THEN m ELSE MapDelete(m, id)
FilterStep(m, id, notes) == IF Len(notes.Items) > 0 THEN MapDelete(m, id) ELSE m

\* The iteration after the call; on an error main returns as well.
FilterHandle ==
    /\ pc = "filterLoop"
    /\ rpc = "ret"
    /\ Returned
    /\ IF StageError(rerr, v) # ""
       THEN /\ err' = StageError(rerr, v)
            /\ ret' = [ret EXCEPT !["filterResources"] = "error"]
            /\ pc' = "done"
            /\ UNCHANGED resources
       ELSE /\ resources' = FilterStep(resources, req.arg, v)
            /\ UNCHANGED <<err, ret, pc>>
    /\ UNCHANGED <<variant, port, token, page, mark, todo, count, totalSize,
                   failToDelete, stdin, stdout, servern, remote, runs, pages, listOut,
                   listed, notesReq, notesOut, delReq, delOut, filterEntry,
                   deleteEntry>>

\* ------------------------------------------- main of the confirmation variant
Line(text, a, b) == [text |-> text, a |-> a, b |-> b]

\* The orders in which a range loop may visit the keys of a map.
Orders(S) ==
    {s \in [1..Cardinality(S) -> S] : \A i, j \in 1..Cardinality(S) : s[i] = s[j] => i = j}

\* What standard input may hold, character by character.
StdinInputs ==
    { <<"y", "e", "s", "\n">>, <<"Y", "e", "s", "\n">>, <<"n", "o", "\n">>,
      <<"Y", "E", "S", "\n">>, <<"y", "\n">>, <<"\n">>, <<"y", "e", "s">>,
      <<>>, <<"y", "e", "s", "\r", "\n">>, <<"n", "o", "\n", "y", "e", "s", "\n">>,
      <<"y", "e", "s", " ", "\n">> }

\* len(resources) < 1
NoneUnusedNever(m) == Cardinality(DOMAIN m) < 0
NoneUnused(m) == Cardinality(DOMAIN m) < 1

\* len(resources) < 1: report and return; otherwise list the identifiers
\* and print the prompt.
Decide ==
    /\ pc = "decide"
    /\ IF NoneUnused(resources)
       THEN /\ stdout' = Append(stdout, Line("no unused attachments", 0, 0))
            /\ pc' = "done"
            /\ UNCHANGED stdin
       ELSE /\ \E order \in Orders(DOMAIN resources) :
                stdout' = stdout \o <<Line("unused attachments:", 0, 0)>>
                          \o [k \in 1..Len(order) |-> Line("  - ", order[k], 0)]
                          \o <<Line("view these attachments in 'Tools > Note attachments'", 0, 0),
                               Line("delete these resources? [Yes/no]: ", 0, 0)>>
            /\ stdin' \in StdinInputs
            /\ pc' = "prompt"
    /\ UNCHANGED <<variant, port, token, err, page, mark, resources, todo,
                   count, totalSize, failToDelete, callVars, servern, remote, runs, histVars>>

\* bufio.Reader.ReadString(delim): the input up to and including the first
\* delim, or all of it with io.EOF when there is none.
DelimAt(s, delim) ==
    IF \E i \in 1..Len(s) : s[i] = delim
    THEN CHOOSE i \in 1..Len(s) : s[i] = delim /\ \A j \in 1..(i - 1) : s[j] # delim
    ELSE 0
ReadString(s, delim) ==
    IF DelimAt(s, delim) = 0 THEN [line |-> s, err |-> "EOF"]
    ELSE [line |-> SubSeq(s, 1, DelimAt(s, delim)), err |-> ""]

\* strings.TrimSuffix(s, suffix)
TrimSuffix(s, suffix) ==
    IF Len(s) >= Len(suffix) /\ SubSeq(s, Len(s) - Len(suffix) + 1, Len(s)) = suffix
    THEN SubSeq(s, 1, Len(s) - Len(suffix))
    ELSE s

\* input != "yes" && input != "Yes" is false
ConfirmedAnyCase(input) ==
    input \in {<<"y", "e", "s">>, <<"Y", "e", "s">>, <<"Y", "E", "S">>}
Confirmed(input) == ~(input # <<"y", "e", "s">> /\ input # <<"Y", "e", "s">>)

\* Whether main reaches deleteResources on this standard input.
Proceeds(s) ==
    LET r == ReadString(s, "\n")
    IN  r.err = "" /\ Confirmed(TrimSuffix(r.line, <<"\n">>))

\* The read of the answer and the test on it.
ReadInput ==
    /\ pc = "prompt"
    /\ err' = ReadString(stdin, "\n").err
    /\ pc' = IF Proceeds(stdin) THEN "delete" ELSE "done"
    /\ UNCHANGED <<variant, port, token, page, mark, resources, todo, count,
                   totalSize, failToDelete, stdin, stdout, callVars, servern, remote, runs,
                   histVars>>

\* -------------------------------- deleteOrphanedResources / deleteResources
DeleteStart ==
    /\ pc = "delete"
    /\ pc' = "deleteLoop"
    /\ todo' = DOMAIN resources
    /\ deleteEntry' = resources
    /\ ret' = [ret EXCEPT !["deleteResources"] = "running"]
    /\ UNCHANGED <<variant, port, token, err, page, mark, resources, count,
                   totalSize, failToDelete, stdin, stdout, callVars, servern, remote, runs,
                   pages, listOut, listed, notesReq, notesOut, delReq, delOut,
                   filterEntry>>

\* The next iteration up to the call, DELETE /resources/:id, or the return
\* nil after the last one.
DeleteNext ==
    /\ pc = "deleteLoop"
    /\ rpc = "idle"
    /\ IF todo = {}
       THEN /\ pc' = IF variant = "recorder" THEN "summary" ELSE "done"
            /\ err' = ""
            /\ ret' = [ret EXCEPT !["deleteResources"] = "ok"]
            /\ UNCHANGED <<todo, delReq, callVars>>
       ELSE \E id \in todo :
            /\ Call("DELETE", "delete", id)
            /\ todo' = Visit(todo, id)
            /\ delReq' = [delReq EXCEPT ![id] = @ + 1]
            /\ UNCHANGED <<pc, err, ret>>
    /\ UNCHANGED <<variant, port, token, page, mark, resources, count,
                   totalSize, failToDelete, stdin, stdout, servern, remote, runs, pages,
                   listOut, listed, notesReq, notesOut, delOut, filterEntry,
                   deleteEntry>>

\* Whether the iteration returns an error, which ends the loop and main:
\* a readRespBody error in both variants, and in deleteResources an error
\* envelope too.
DeleteAborts(var, e, resp) ==
    IF var = "recorder" THEN e # "" ELSE e # "" \/ resp.Error # ""

\* The iteration after the call.
DeleteHandle ==
    /\ pc = "deleteLoop"
    /\ rpc = "ret"
    /\ Returned
    /\ IF DeleteAborts(variant, rerr, v)
       THEN /\ err' = IF rerr # "" THEN rerr ELSE v.Error
            /\ ret' = [ret EXCEPT !["deleteResources"] = "error"]
            /\ pc' = "done"
            /\ UNCHANGED <<count, totalSize, failToDelete>>
       ELSE /\ IF variant = "recorder"
               THEN IF v.Error # ""
                    THEN /\ failToDelete' = Append(failToDelete, req.arg)
                         /\ UNCHANGED <<count, totalSize>>
                    ELSE /\ count' = count + 1
                         /\ totalSize' = totalSize + resources[req.arg]
                         /\ UNCHANGED failToDelete
               ELSE UNCHANGED <<count, totalSize, failToDelete>>
            /\ UNCHANGED <<err, ret, pc>>
    /\ UNCHANGED <<variant, port, token, page, mark, resources, todo, stdin,
                   stdout, servern, remote, runs, pages, listOut, listed, notesReq, notesOut,
                   delReq, delOut, filterEntry, deleteEntry>>

\* The lines main prints at the end: the summary line and one "fail to
\* delete" line for each entry of failToDelete.
SummaryLinesNoFailures(n, bytes, failed) ==
    <<Line("resource(s) have been deleted.", n, bytes)>>
SummaryLines(n, bytes, failed) ==
    <<Line("resource(s) have been deleted.", n, bytes)>>
    \o [k \in 1..Len(failed) |-> Line("fail to delete: ", failed[k], 0)]

\* The summary of the Recorder variant.
Summary ==
    /\ pc = "summary"
    /\ stdout' = stdout \o SummaryLines(count, totalSize, failToDelete)
    /\ pc' = "done"
    /\ UNCHANGED <<variant, port, token, err, page, mark, resources, todo,
                   count, totalSize, failToDelete, stdin, callVars, servern, remote, runs,
                   histVars>>

Next ==
    \/ MainStart
    \/ ListRequest
    \/ readRespBody_Do
    \/ DecodeClose
    \/ ListHandle
    \/ FilterStart
    \/ FilterNext
    \/ FilterHandle
    \/ Decide
    \/ ReadInput
    \/ DeleteStart
    \/ DeleteNext
    \/ DeleteHandle
    \/ Summary

Spec == Init /\ [][Next]_vars

\* ------------------------------------------------ termination of the listing
\* The whole program against a server that answers a listing request in any
\* way and every notes query and DELETE with an empty body.  The program is
\* one sequential process that takes its next step whenever it has one, and
\* the client's 3 second timeout ends every client.Do.
QuietDo ==
    \E w \in (IF req.kind = "resources" THEN ListingWire(Sized)
              ELSE {WireBody("empty", ZeroResponse)}) :
        Do(w)

NextFair ==
    \/ MainStart
    \/ ListRequest
    \/ QuietDo
    \/ DecodeClose
    \/ ListHandle
    \/ FilterStart
    \/ FilterNext
    \/ FilterHandle
    \/ Decide
    \/ ReadInput
    \/ DeleteStart
    \/ DeleteNext
    \/ DeleteHandle
    \/ Summary

SpecFair == Init /\ [][NextFair]_vars /\ WF_vars(NextFair)

\* ------------------------------------------ getAllResources against paging
\* The listing stage alone, against the well-behaved paging server.
InitPaging ==
    /\ InitCommon
    /\ ConfigError(token, port) = ""
    /\ servern \in 0..MaxN
    /\ remote = [i \in IDs |-> NoBody]

PagedListRequest == ListRequestUpTo(MaxN \div Limit + 2)

PagedDo == Do(PagedWire(servern, req.arg, Sized))

NextPaging ==
    \/ MainStart
    \/ PagedListRequest
    \/ PagedDo
    \/ DecodeClose
    \/ ListHandle

SpecPaging == InitPaging /\ [][NextPaging]_vars

\* --------------------------------- filterResources twice, remote unchanged
\* The listing and filter stages against a server whose answer to the notes
\* query of an identifier is fixed and no error, with filterResources
\* called a second time on the set the first call left.
StableNotesWire == {w \in NotesWire : w.kind \in {"empty", "json"} /\ w.env.Error = ""}

InitFilterTwice ==
    /\ InitCommon
    /\ ConfigError(token, port) = ""
    /\ servern = 0
    /\ remote \in [IDs -> StableNotesWire]

StableDo ==
    /\ rpc = "sent"
    /\ \E w \in (IF req.kind = "resources" THEN ListingWire(Sized)
                 ELSE {remote[req.arg]}) :
           Do(w)

FilterAgain ==
    /\ pc = AfterFilter
    /\ runs = 1
    /\ ret["filterResources"] = "ok"
    /\ pc' = "filter"
    /\ UNCHANGED <<variant, port, token, err, page, mark, resources, todo,
                   count, totalSize, failToDelete, stdin, stdout, callVars,
                   servern, remote, runs, histVars>>

NextFilterTwice ==
    \/ MainStart
    \/ ListRequest
    \/ StableDo
    \/ DecodeClose
    \/ ListHandle
    \/ FilterStart
    \/ FilterNext
    \/ FilterHandle
    \/ FilterAgain

SpecFilterTwice == InitFilterTwice /\ [][NextFilterTwice]_vars

\* ================================================================= claims
Failing(out) == out.kind # "none" /\ (out.err # "" \/ out.Error # "")
NoDelete == \A id \in IDs : delReq[id] = 0
RECURSIVE SumOver(_, _)
SumOver(m, S) ==
    IF S = {} THEN 0
    ELSE LET x == CHOOSE x \in S : TRUE IN m[x] + SumOver(m, S \ {x})

\* C1: a DELETE request is issued for an identifier only if a listing page
\* of the run returned it, its notes query came back without transport
\* error, with an empty error field and an empty item list, and the Filter
\* pass with all its notes queries was over before the first DELETE.
C1_DeleteOnlyOrphans ==
    \A id \in IDs :
        delReq[id] > 0 =>
            /\ id \in listed
            /\ notesOut[id].kind # "none"
            /\ notesOut[id].err = ""
            /\ notesOut[id].Error = ""
            /\ notesOut[id].n = 0
            /\ ret["filterResources"] = "ok"
            /\ \A j \in DOMAIN filterEntry :
                   notesReq[j] = 1 /\ notesOut[j].kind # "none"
            /\ ~(rpc # "idle" /\ req.kind = "notes")

C1_Witness ==
    /\ variant = "confirm"
    /\ \A id \in IDs : delReq[id] = 1
    /\ pc = "done"

\* C2: when filterResources returns without error, every identifier of the
\* set at entry whose notes query returned items is gone, every one whose
\* query returned no item is still there with its size, and nothing was
\* added.
C2_FilterResult ==
    ret["filterResources"] = "ok" =>
        /\ DOMAIN resources \subseteq DOMAIN filterEntry
        /\ \A id \in DOMAIN filterEntry :
               /\ notesOut[id].kind # "none"
               /\ notesOut[id].n > 0 => id \notin DOMAIN resources
               /\ notesOut[id].n = 0 =>
                      id \in DOMAIN resources /\ resources[id] = filterEntry[id]

C2_Witness ==
    /\ ret["filterResources"] = "ok"
    /\ variant = "recorder"
    /\ \E id \in DOMAIN filterEntry : notesOut[id].n > 0
    /\ \E id \in DOMAIN filterEntry : notesOut[id].n = 0 /\ resources[id] > 0

ExpectedPages(n) ==
    IF n = 0 THEN 1
    ELSE IF n % Limit = 0 THEN n \div Limit ELSE n \div Limit + 1
\* C3: against the paging server of n identifiers getAllResources requests
\* the pages 1, 2, ... once each in ascending order, none after the first
\* response without has_more, k+1 of them when n = k*Limit + r with
\* 0 < r < Limit or n = 0 and k of them when n = k*Limit with k >= 1, and
\* returns exactly the n identifiers.
C3_Paging ==
    /\ pages = [i \in 1..Len(pages) |-> i]
    /\ Len(pages) <= ExpectedPages(servern)
    /\ pc # "list" /\ pc # "start" =>
           /\ ret["getAllResources"] = "ok"
           /\ Len(pages) = ExpectedPages(servern)
           /\ DOMAIN resources = 1..servern

C3_Witness ==
    /\ pc = "filter"
    /\ servern = 2 * Limit
    /\ Len(pages) = 2
    /\ Cardinality(DOMAIN resources) = 2 * Limit

\* C4: whenever Recorder.deleteOrphanedResources returns, count plus the
\* number of recorded failures is the size of the set at entry, and
\* totalSize is the sum of the sizes of the identifiers counted as deleted.
C4_SummaryAccounts ==
    (variant = "recorder" /\ ret["deleteResources"] \in {"ok", "error"}) =>
        /\ count + Len(failToDelete) = Cardinality(DOMAIN deleteEntry)
        /\ totalSize =
              SumOver(deleteEntry,
                      {id \in DOMAIN deleteEntry :
                          delOut[id].kind # "none" /\ ~Failing(delOut[id])})

\* C5: in both variants a DELETE answered by an error envelope does not end
\* the loop: every identifier of the set at entry still gets its DELETE,
\* and the Recorder records the identifier as failed.
C5_ErrorEnvelopeIsolated ==
    (/\ ret["deleteResources"] \in {"ok", "error"}
     /\ \E id \in IDs : delOut[id].Error # ""
     /\ \A id \in IDs : delOut[id].err = "") =>
        /\ \A id \in DOMAIN deleteEntry : delReq[id] = 1
        /\ variant = "recorder" =>
               \A id \in IDs :
                   delOut[id].Error # "" =>
                       \E k \in 1..Len(failToDelete) : failToDelete[k] = id

\* C6: a transport failure of one DELETE is a failure of that identifier
\* only: it is recorded as failed, every other identifier still gets its
\* DELETE, and the run reaches the summary.
C6_TransportFailureIsolated ==
    (/\ ret["deleteResources"] \in {"ok", "error"}
     /\ \E id \in IDs : delOut[id].err # "") =>
        /\ \A id \in DOMAIN deleteEntry : delReq[id] = 1
        /\ ret["deleteResources"] = "ok"
        /\ variant = "recorder" =>
               \A id \in IDs :
                   delOut[id].err # "" =>
                       \E k \in 1..Len(failToDelete) : failToDelete[k] = id

StageFailed ==
    \/ \E k \in 1..Len(listOut) : Failing(listOut[k])
    \/ \E id \in IDs : Failing(notesOut[id])
FailMessages ==
    {IF o.err # "" THEN o.err ELSE o.Error :
        o \in {listOut[k] : k \in 1..Len(listOut)} \cup {notesOut[id] : id \in IDs}}
    \ {""}
C7_Step ==
    /\ StageFailed =>
           /\ pages' = pages
           /\ notesReq' = notesReq
           /\ delReq' = delReq
           /\ stdout' = stdout
    /\ StageFailed' =>
           /\ NoDelete'
           /\ stdout' = <<>>
           /\ rpc' = "idle" =>
                  /\ pc' = "done"
                  /\ err' \in FailMessages'
                  /\ \E st \in {"getAllResources", "filterResources"} :
                         ret'[st] = "error"
\* C7: once a listing request or a notes query has ended in a transport
\* error or an error envelope, the stage returns that error, main ends, no
\* request of any kind is issued any more, no DELETE was or is issued and
\* nothing is printed.
C7_StageErrorEndsRun == [][C7_Step]_vars

C7_Witness ==
    /\ pc = "done"
    /\ Len(listOut) = 1
    /\ listOut[1].Error = "Invalid token"
    /\ err = "Invalid token"

AnsweredYes ==
    \E k \in 1..Len(stdin) :
        /\ stdin[k] = "\n"
        /\ \A j \in 1..(k - 1) : stdin[j] # "\n"
        /\ SubSeq(stdin, 1, k - 1) \in {<<"y", "e", "s">>, <<"Y", "e", "s">>}
\* C8: in the confirmation variant a DELETE is issued only if the line read
\* from standard input, without its newline, is yes or Yes; on any other
\* input and on a read error no DELETE is issued.
C8_OnlyOnYes ==
    variant = "confirm" =>
        /\ ~NoDelete => AnsweredYes
        /\ (pc \in {"delete", "deleteLoop"}) => AnsweredYes

C8_Witness ==
    /\ variant = "confirm"
    /\ pc = "done"
    /\ stdin = <<"n", "o", "\n">>
    /\ DOMAIN resources # {}
    /\ ret["filterResources"] = "ok"
    /\ NoDelete

\* C9: in the confirmation variant, when the set left by the Filter pass is
\* empty the program prints "no unused attachments", does not prompt and
\* issues no DELETE.
C9_NothingUnused ==
    (/\ variant = "confirm"
     /\ ret["filterResources"] = "ok"
     /\ DOMAIN resources = {}
     /\ pc # "decide") =>
        /\ pc = "done"
        /\ stdout = <<Line("no unused attachments", 0, 0)>>
        /\ stdin = <<>>
        /\ NoDelete

C9_Witness ==
    /\ variant = "confirm"
    /\ pc = "done"
    /\ listed # {}
    /\ ret["filterResources"] = "ok"
    /\ DOMAIN resources = {}
    /\ stdout # <<>>

FlagsPass == token # "" /\ port >= 0 /\ port <= 65535
NoRequestYet ==
    /\ pages = <<>>
    /\ \A id \in IDs : notesReq[id] = 0 /\ delReq[id] = 0
    /\ outstanding = 0
\* C10: with an empty token or a port outside 0..65535 main ends without
\* any HTTP request; otherwise the first listing request is issued.
C10_ConfigChecked ==
    /\ ~FlagsPass => NoRequestYet /\ pc \in {"start", "done"}
    /\ (FlagsPass /\ pc # "start") =>
           \/ pages # <<>> /\ pages[1] = 1
           \/ NoRequestYet /\ ENABLED ListRequest

C10_Witness ==
    /\ pc = "done"
    /\ token # ""
    /\ port = MaxPortNo + 1
    /\ NoRequestYet
DeletedIds == {id \in IDs : delOut[id].kind # "none" /\ delOut[id].Error = ""}
FailedIds == {id \in IDs : delOut[id].kind # "none" /\ delOut[id].Error # ""}
FailLines(id) ==
    {k \in 1..Len(stdout) : stdout[k] = Line("fail to delete: ", id, 0)}
\* C11: in the Recorder variant the summary reports as count the number of
\* identifiers whose DELETE came back with an empty error field and as
\* bytes the sum of their listed sizes, prints exactly one "fail to delete"
\* line for each identifier whose DELETE came back with an error field, and
\* the deleted and the failed identifiers together are the listed
\* identifiers whose notes query returned no item.
C11_Summary ==
    (variant = "recorder" /\ pc = "done" /\ stdout # <<>>) =>
        /\ stdout[1] = Line("resource(s) have been deleted.",
                            Cardinality(DeletedIds),
                            SumOver([i \in IDs |-> SizeOf(i)], DeletedIds))
        /\ Len(stdout) = 1 + Cardinality(FailedIds)
        /\ \A id \in IDs :
               Cardinality(FailLines(id)) = IF id \in FailedIds THEN 1 ELSE 0
        /\ DeletedIds \cup FailedIds =
               {id \in listed : notesOut[id].kind # "none" /\ notesOut[id].n = 0}
        /\ \A k \in 1..Len(listOut) : ~Failing(listOut[k])
        /\ \A id \in IDs : ~Failing(notesOut[id])

C11_Witness ==
    /\ variant = "recorder"
    /\ pc = "done"
    /\ Cardinality(listed) = MaxIds
    /\ Cardinality(DeletedIds) = 1
    /\ Cardinality(FailedIds) = 1
    /\ Len(stdout) = 2
\* C12: with every notes query answering the same both times and no error,
\* a second run of filterResources on the set the first run left removes
\* nothing: the set after the second run is the set after the first.
C12_FilterIdempotent ==
    (runs = 2 /\ ret["filterResources"] = "ok") =>
        /\ resources = filterEntry
        /\ \A id \in DOMAIN filterEntry : notesReq[id] = 2 /\ notesOut[id].n = 0

C12_Witness ==
    /\ runs = 2
    /\ ret["filterResources"] = "ok"
    /\ DOMAIN resources # {}
    /\ listed \ DOMAIN resources # {}
Handled(kind, id) == ~(rpc # "idle" /\ req.kind = kind /\ req.arg = id)
AllOutcomes ==
    {listOut[k] : k \in 1..Len(listOut)} \cup {notesOut[id] : id \in IDs}
    \cup {delOut[id] : id \in IDs}
CountedIds ==
    {id \in IDs : delOut[id].kind # "none" /\ Handled("delete", id)
                   /\ delOut[id].err = "" /\ delOut[id].Error = ""}
\* C13: readRespBody returns nil and leaves the envelope at its zero value
\* when the body is empty, and returns an error when the body is not JSON
\* and when the request fails; so the Recorder counts a DELETE answered with
\* an empty body as a deletion.
C13_EmptyBodyIsSuccess ==
    /\ rpc = "ret" =>
           /\ body.kind = "empty" => rerr = "" /\ v = ZeroResponse
           /\ body.kind \in {"garbage", "neterr"} => rerr # ""
    /\ \A o \in AllOutcomes :
           /\ o.kind = "empty" => o.err = "" /\ o.Error = "" /\ o.n = 0
           /\ o.kind \in {"garbage", "neterr"} => o.err # ""
    /\ variant = "recorder" =>
           /\ count = Cardinality(CountedIds)
           /\ \A id \in IDs :
                  (delOut[id].kind = "empty" /\ Handled("delete", id)) =>
                      /\ id \in CountedIds
                      /\ \A k \in 1..Len(failToDelete) : failToDelete[k] # id

C13_Witness ==
    /\ variant = "recorder"
    /\ pc = "done"
    /\ \E id \in IDs : delOut[id].kind = "empty"
    /\ \E id \in IDs : delOut[id].kind = "json" /\ delOut[id].Error # ""
    /\ count = 1
    /\ Len(stdout) = 2

\* C14: no request is retried: each listing page is requested at most once
\* and each identifier gets at most one notes query and at most one DELETE,
\* whatever the outcome.
C14_NoRetry ==
    /\ \A i, j \in 1..Len(pages) : pages[i] = pages[j] => i = j
    /\ \A id \in IDs : notesReq[id] <= 1 /\ delReq[id] <= 1

C14_Witness ==
    /\ pc = "done"
    /\ Len(pages) >= 2
    /\ \E id \in IDs : notesReq[id] = 1 /\ delReq[id] = 1 /\ delOut[id].err # ""

\* C15: when filterResources aborts on an error the error is returned and
\* the set is the set at entry without exactly the identifiers whose notes
\* query had returned items; the identifier whose query failed and those not
\* yet queried are still in it, and on every exit path the set is a subset
\* of the set at entry.
C15_PartialFilter ==
    /\ ret["filterResources"] # "none" =>
           DOMAIN resources \subseteq DOMAIN filterEntry
    /\ ret["filterResources"] = "error" =>
           /\ err # ""
           /\ DOMAIN resources =
                 DOMAIN filterEntry \
                   {id \in IDs : notesOut[id].kind # "none"
                                  /\ ~Failing(notesOut[id]) /\ notesOut[id].n > 0}
           /\ \A id \in DOMAIN filterEntry :
                  (Failing(notesOut[id]) \/ notesReq[id] = 0) =>
                      id \in DOMAIN resources /\ resources[id] = filterEntry[id]

C15_Witness ==
    /\ ret["filterResources"] = "error"
    /\ DOMAIN filterEntry \ DOMAIN resources # {}
    /\ \E id \in DOMAIN resources : Failing(notesOut[id])

\* C16: every response body is closed when readRespBody returns, on every
\* exit path, so no body is open between two requests or at the end of the
\* run, and at most one request is outstanding at any time.
C16_BodiesClosed ==
    /\ outstanding \in {0, 1}
    /\ openBodies \in {0, 1}
    /\ rpc \in {"idle", "ret"} => outstanding = 0 /\ openBodies = 0
    /\ rpc = "sent" => outstanding = 1 /\ openBodies = 0
    /\ rpc = "body" => outstanding = 0 /\ openBodies = 1
    /\ pc = "done" => outstanding = 0 /\ openBodies = 0

C16_Witness ==
    /\ pc = "done"
    /\ body.kind = "garbage"
    /\ rerr # ""
    /\ openBodies = 0
EmptyAnswer(o) ==
    o.kind = "empty" \/ (o.kind = "json" /\ o.err = "" /\ o.Error = "" /\ o.n = 0)
\* C17: a notes query answered with an empty body, like one answered with
\* an envelope without items and error, keeps the identifier in the set
\* without an error of filterResources, and the identifier is in the set
\* the Deletion Executor gets and has its DELETE when that one returns nil;
\* a listing page answered with an empty body is the last page, and
\* getAllResources returns nil with the identifiers gathered so far.
C17_EmptyBodyMeansOrphan ==
    /\ \A id \in IDs :
           (EmptyAnswer(notesOut[id]) /\ Handled("notes", id)) =>
               /\ id \in DOMAIN resources
               /\ ret["filterResources"] = "error" =>
                      \E j \in IDs \ {id} : Failing(notesOut[j])
               /\ (variant = "recorder" /\ ret["filterResources"] = "ok") =>
                      pc = "delete" \/ id \in DOMAIN deleteEntry
               /\ (variant = "confirm" /\ ret["filterResources"] = "ok"
                      /\ AnsweredYes /\ pc # "prompt") =>
                      pc = "delete" \/ id \in DOMAIN deleteEntry
               /\ ret["deleteResources"] = "ok" => delReq[id] = 1
    /\ \A k \in 1..Len(listOut) :
           (listOut[k].kind = "empty" /\ Handled("resources", k)) =>
               /\ k = Len(listOut)
               /\ ret["getAllResources"] = "ok"
               /\ pc = "filter" => err = "" /\ DOMAIN resources = listed

C17_Witness ==
    /\ variant = "recorder"
    /\ pc = "done"
    /\ Len(listOut) = 2
    /\ listOut[2].kind = "empty"
    /\ \E id \in IDs : notesOut[id].kind = "empty" /\ delReq[id] = 1
    /\ stdout # <<>>

LoopEnding(o) == o.err # "" \/ o.Error # "" \/ ~o.More
AllPagesContinue == \A k \in 1..Len(listOut) : ~LoopEnding(listOut[k])
GetAllReturned == ret["getAllResources"] \in {"ok", "error"}
C18_Safety ==
    /\ GetAllReturned =>
           /\ Len(listOut) >= 1
           /\ LoopEnding(listOut[Len(listOut)])
           /\ \A k \in 1..(Len(listOut) - 1) : ~LoopEnding(listOut[k])
    /\ AllPagesContinue =>
           /\ ~GetAllReturned
           /\ NoDelete
           /\ \A id \in IDs : notesReq[id] = 0
           /\ (pc = "list" /\ rpc = "idle") => mark /\ page = Len(listOut) + 1
\* C18: getAllResources returns exactly when a page's response ends the
\* loop (transport failure, error field or has_more false) and then it does
\* return; while every page so far came back with has_more and no error the
\* loop asks for the next page, whatever its number, and no notes query and
\* no DELETE is issued.
C18_Termination == []C18_Safety /\ (~AllPagesContinue ~> GetAllReturned)

C18_Witness ==
    /\ pc = "list"
    /\ rpc = "idle"
    /\ Len(listOut) >= 2
    /\ AllPagesContinue
    /\ listed # {}
====
